---- MODULE Spec2Model ----
(***************************************************************************)
(* Model of pkg/version/version.go: the VersionGetter tag cache, the       *)
(* registry client dispatcher and the two tag selectors (semver and        *)
(* timestamp).                                                             *)
(*                                                                         *)
(* Text is modelled as a sequence of one-character strings, so that        *)
(* parsing a tag is computed and not assumed.                              *)
(***************************************************************************)
EXTENDS Integers, Sequences, FiniteSets, TLC

(***************************************************************************)
(* Bounds of the model.                                                    *)
(***************************************************************************)
\* longest tag list handed to a selector in SpecSelect
MaxTags == 3

Nil == "nil"

(***************************************************************************)
(* Characters.  Alphabet lists the characters of the model in byte order,  *)
(* which is the order Go's string comparison uses.                         *)
(***************************************************************************)
Digits == {"0", "1", "2", "3", "4", "5", "6", "7", "8", "9"}

Letters == {"a", "b", "c", "e", "l", "r", "s", "t", "v"}

Alphabet ==
  <<"+", "-", ".", "0", "1", "2", "3", "4", "5", "6", "7", "8", "9",
    "a", "b", "c", "e", "l", "r", "s", "t", "v">>

CharRank(c) == CHOOSE i \in 1..Len(Alphabet) : Alphabet[i] = c

DigitVal(c) == CharRank(c) - CharRank("0")

\* s < t in Go's (bytewise lexicographic) string order
RECURSIVE StrLess(_, _)
StrLess(s, t) ==
  IF t = <<>> THEN FALSE
  ELSE IF s = <<>> THEN TRUE
  ELSE IF s[1] # t[1] THEN CharRank(s[1]) < CharRank(t[1])
  ELSE StrLess(Tail(s), Tail(t))

\* the number of consecutive digits of s starting at position i
RECURSIVE DigitRun(_, _)
DigitRun(s, i) ==
  IF i <= Len(s) /\ s[i] \in Digits THEN 1 + DigitRun(s, i + 1) ELSE 0

RECURSIVE StripZeros(_)
StripZeros(ds) ==
  IF Len(ds) > 1 /\ ds[1] = "0" THEN StripZeros(Tail(ds)) ELSE ds

\* the decimal digits of 2^63 - 1, the largest int64
MaxInt64Digits ==
  <<"9", "2", "2", "3", "3", "7", "2", "0", "3", "6", "8", "5", "4", "7", "7",
    "5", "8", "0", "7">>

\* strconv.ParseInt(ds, 10, 64) fails with a range error: ds is a non-empty
\* digit string whose value exceeds 2^63 - 1
IntOverflows(ds) ==
  LET t == StripZeros(ds) IN
    \/ Len(t) > Len(MaxInt64Digits)
    \/ Len(t) = Len(MaxInt64Digits) /\ StrLess(MaxInt64Digits, t)

\* the value of the first n digits of a digit string that does not overflow
\* (the tags of the model hold no number between 2^31 and 2^63)
RECURSIVE DigitsValueTo(_, _)
DigitsValueTo(ds, n) ==
  IF n = 0 THEN 0 ELSE 10 * DigitsValueTo(ds, n - 1) + DigitVal(ds[n])

DigitsValue(ds) == DigitsValueTo(ds, Len(ds))

\* the element of a one-element set: The({e(x) : x \in {d}}) is e(d), with d
\* evaluated once
The(S) == CHOOSE x \in S : TRUE

(***************************************************************************)
(* semver.NewVersion, as latestSemver uses it: the tag text either is not  *)
(* of the form v?N(.N)?(.N)?(-pre)?(+meta)? (ErrInvalidSemVer), or has a   *)
(* numeric segment that does not fit an int64 (another error), or yields a *)
(* version.                                                                *)
(***************************************************************************)
IdentChars == Digits \cup Letters \cup {"-"}

\* [0-9A-Za-z-]+(\.[0-9A-Za-z-]+)* over the whole of t
ValidIdents(t) ==
  /\ t # <<>>
  /\ \A i \in 1..Len(t) : t[i] \in IdentChars \cup {"."}
  /\ t[1] # "."
  /\ t[Len(t)] # "."
  /\ \A i \in 1..(Len(t) - 1) : ~(t[i] = "." /\ t[i + 1] = ".")

\* the position of the first "+" of s at or after i, Len(s) + 1 when none
RECURSIVE PlusAt(_, _)
PlusAt(s, i) ==
  IF i > Len(s) \/ s[i] = "+" THEN i ELSE PlusAt(s, i + 1)

ErrInvalidSemVer == "ErrInvalidSemVer"

ErrParseSegment == "ErrParseSegment"

InvalidSemVer == [err |-> ErrInvalidSemVer]

\* the digits d1, d2 (has2) and d3 (has3) to a version, or to the error of
\* strconv.ParseInt
versionOf(d1, has2, d2, has3, d3, pre, meta) ==
  IF \/ IntOverflows(d1)
     \/ has2 /\ IntOverflows(d2)
     \/ has3 /\ IntOverflows(d3)
    THEN [err |-> ErrParseSegment]
    ELSE [err |-> Nil,
          major |-> DigitsValue(d1),
          minor |-> IF has2 THEN DigitsValue(d2) ELSE 0,
          patch |-> IF has3 THEN DigitsValue(d3) ELSE 0,
          pre |-> pre,
          metadata |-> meta]

\* (-pre)?(+meta)?$ from position p3, after the segments s[p0..p1-1],
\* s[p1+1..p2-1] (when p2 > p1) and s[p2+1..p3-1] (when p3 > p2)
parseSuffix(s, p0, p1, p2, p3) ==
  The({ LET hasPre == p3 <= Len(s) /\ s[p3] = "-"
            pre == IF hasPre THEN SubSeq(s, p3 + 1, p4 - 1) ELSE <<>>
            hasMeta == p4 <= Len(s) /\ s[p4] = "+"
            meta == IF hasMeta THEN SubSeq(s, p4 + 1, Len(s)) ELSE <<>>
        IN  IF /\ hasPre => ValidIdents(pre)
               /\ hasMeta => ValidIdents(meta)
               /\ hasMeta \/ p4 = Len(s) + 1
              THEN versionOf(SubSeq(s, p0, p1 - 1),
                             p2 > p1, SubSeq(s, p1 + 1, p2 - 1),
                             p3 > p2, SubSeq(s, p2 + 1, p3 - 1), pre, meta)
              ELSE InvalidSemVer
        : p4 \in {IF p3 <= Len(s) /\ s[p3] = "-"
                    THEN PlusAt(s, p3 + 1) ELSE p3} })

\* the length of (\.[0-9]+)? at position p: 0 when it does not match
dotSegment(s, p) ==
  IF p <= Len(s) /\ s[p] = "." /\ DigitRun(s, p + 1) > 0
    THEN 1 + DigitRun(s, p + 1)
    ELSE 0

\* ^v?([0-9]+)(\.[0-9]+)?(\.[0-9]+)?(-pre)?(+meta)?$
NewVersion(s) ==
  The({ The({ IF n1 = 0 THEN InvalidSemVer
              ELSE The({ The({ parseSuffix(s, p0, p0 + n1, p0 + n1 + n2,
                                           p0 + n1 + n2 + n3)
                               : n3 \in {IF n2 = 0 THEN 0
                                         ELSE dotSegment(s, p0 + n1 + n2)} })
                         : n2 \in {dotSegment(s, p0 + n1)} })
              : n1 \in {DigitRun(s, p0)} })
        : p0 \in {IF Len(s) >= 1 /\ s[1] = "v" THEN 2 ELSE 1} })

(***************************************************************************)
(* Version.Compare / LessThan: major, minor, patch, then the pre-release:  *)
(* a version without one is greater than one with; two pre-releases are    *)
(* compared identifier by identifier, numeric identifiers by value and     *)
(* below alphanumeric ones, alphanumeric ones as strings.                  *)
(***************************************************************************)
\* the position of the first "." of t, Len(t) + 1 when none
RECURSIVE DotAt(_, _)
DotAt(t, i) ==
  IF i > Len(t) \/ t[i] = "." THEN i ELSE DotAt(t, i + 1)

\* strings.Split(t, ".")
RECURSIVE SplitDots(_)
SplitDots(t) ==
  LET d == DotAt(t, 1) IN
    IF d > Len(t) THEN <<t>>
    ELSE <<SubSeq(t, 1, d - 1)>> \o SplitDots(SubSeq(t, d + 1, Len(t)))

IsNumeric(p) == p # <<>> /\ \A i \in 1..Len(p) : p[i] \in Digits

\* -1, 0 or 1
comparePrePart(s, o) ==
  IF s = o THEN 0
  ELSE IF s = <<>> THEN -1
  ELSE IF o = <<>> THEN 1
  ELSE IF IsNumeric(s) /\ IsNumeric(o)
    THEN IF DigitsValue(s) = DigitsValue(o) THEN 0
         ELSE IF DigitsValue(s) > DigitsValue(o) THEN 1 ELSE -1
  ELSE IF IsNumeric(s) THEN -1
  ELSE IF IsNumeric(o) THEN 1
  ELSE IF StrLess(o, s) THEN 1 ELSE -1

RECURSIVE comparePreParts(_, _)
comparePreParts(sp, op) ==
  IF sp = <<>> /\ op = <<>> THEN 0
  ELSE LET s == IF sp = <<>> THEN <<>> ELSE sp[1]
           o == IF op = <<>> THEN <<>> ELSE op[1]
           d == comparePrePart(s, o)
       IN  IF d # 0 THEN d
           ELSE comparePreParts(IF sp = <<>> THEN <<>> ELSE Tail(sp),
                                IF op = <<>> THEN <<>> ELSE Tail(op))

Compare(v, o) ==
  IF v.major # o.major THEN (IF v.major < o.major THEN -1 ELSE 1)
  ELSE IF v.minor # o.minor THEN (IF v.minor < o.minor THEN -1 ELSE 1)
  ELSE IF v.patch # o.patch THEN (IF v.patch < o.patch THEN -1 ELSE 1)
  ELSE IF v.pre = <<>> /\ o.pre = <<>> THEN 0
  ELSE IF v.pre = <<>> THEN 1
  ELSE IF o.pre = <<>> THEN -1
  ELSE comparePreParts(SplitDots(v.pre), SplitDots(o.pre))

LessThan(v, o) == Compare(v, o) < 0

(***************************************************************************)
(* api.ImageTag and api.Options.  An ImageTag is its Tag text and its      *)
(* Timestamp (the SHA field is read nowhere in this file).  An optional    *)
(* pointer field (PinMajor, RegexMatcher, ...) is <<>> when nil and <<x>>  *)
(* when set.                                                               *)
(* A RegexMatcher is a literal, anchored at the start of the text or not:  *)
(* MatchString searches the text for it.                                   *)
(***************************************************************************)
ImageTag(text, ts) == [Tag |-> text, Timestamp |-> ts]

NoImageTag == [Tag |-> <<>>, Timestamp |-> 0]

\* the literal lit occurs in s at position i
OccursAt(lit, s, i) ==
  /\ i + Len(lit) - 1 <= Len(s)
  /\ \A k \in 1..Len(lit) : s[i + k - 1] = lit[k]

MatchString(re, s) ==
  IF re.anchored THEN OccursAt(re.lit, s, 1)
  ELSE \E i \in 1..(Len(s) + 1) : OccursAt(re.lit, s, i)

(***************************************************************************)
(* The tags of the model.                                                  *)
(***************************************************************************)
T123 == ImageTag(<<"1", ".", "2", ".", "3">>, 1)

T129 == ImageTag(<<"1", ".", "2", ".", "9">>, 2)

T200 == ImageTag(<<"2", ".", "0", ".", "0">>, 1)

Tv129 == ImageTag(<<"v", "1", ".", "2", ".", "9">>, 3)

T130b == ImageTag(<<"1", ".", "3", ".", "0", "-", "b">>, 3)

T130 == ImageTag(<<"1", ".", "3">>, 2)

Tlatest == ImageTag(<<"l", "a", "t", "e", "s", "t">>, 2)

\* a numeric tag of 20 digits: more than an int64 holds
Thuge ==
  ImageTag(<<"9", "9", "9", "9", "9", "9", "9", "9", "9", "9",
             "9", "9", "9", "9", "9", "9", "9", "9", "9", "9">>, 1)

TagUniverse == {T123, T129, T200, Tv129, T130b, T130, Tlatest, Thuge}

ErrNoMatch == "no image found with those option constraints"

ErrNoSHA == "failed to find latest image based on SHA"

\* a selector that answers with a tag of its own making
FoundZeroValue(tags, i) == [err |-> Nil, idx |-> i, tag |-> NoImageTag]

Found(tags, i) == [err |-> Nil, idx |-> i, tag |-> tags[i]]

Failed(e) == [err |-> e, idx |-> 0, tag |-> NoImageTag]

(***************************************************************************)
(* latestSemver: the loop over tags[i], with latestImageTag kept as the    *)
(* index it points at (0: nil) and latestSemVer as <<>> (nil) or <<v>>.    *)
(***************************************************************************)
\* Filtered without the PinMajor test of line 169
FilteredNoPinMajor(opts, tag, v) ==
  \/ opts.RegexMatcher # <<>> /\ ~MatchString(opts.RegexMatcher[1], tag.Tag)
  \/ v.pre # <<>> /\ ~opts.UsePreRelease
  \/ opts.PinMinor # <<>> /\ v.minor # opts.PinMinor[1]
  \/ opts.PinPatch # <<>> /\ v.patch # opts.PinPatch[1]

\* the tag is skipped by one of the filters of the loop body (lines 159-177)
Filtered(opts, tag, v) ==
  \/ opts.RegexMatcher # <<>> /\ ~MatchString(opts.RegexMatcher[1], tag.Tag)
  \/ v.pre # <<>> /\ ~opts.UsePreRelease
  \/ opts.PinMajor # <<>> /\ v.major # opts.PinMajor[1]
  \/ opts.PinMinor # <<>> /\ v.minor # opts.PinMinor[1]
  \/ opts.PinPatch # <<>> /\ v.patch # opts.PinPatch[1]

\* Replaces with "not greater" for "less": an equal version replaces too
ReplacesOnEqual(latestSemVer, v) ==
  latestSemVer = <<>> \/ ~LessThan(v, latestSemVer[1])

\* line 179: the tag replaces the latest one
Replaces(latestSemVer, v) ==
  latestSemVer = <<>> \/ LessThan(latestSemVer[1], v)

\* no tag is passed over for the way its text fails to parse
SkippedNever(v) == FALSE

\* the tag whose text semver.NewVersion answered with v is passed over
Skipped(v) == v.err = ErrInvalidSemVer

RECURSIVE semverLoop(_, _, _, _, _)
semverLoop(opts, tags, i, latestIdx, latestSemVer) ==
  IF i > Len(tags)
    THEN IF latestIdx = 0 THEN Failed(ErrNoMatch) ELSE Found(tags, latestIdx)
  ELSE The({
    IF Skipped(v)
      THEN semverLoop(opts, tags, i + 1, latestIdx, latestSemVer)
    ELSE IF v.err # Nil THEN Failed(v.err)
    ELSE IF Filtered(opts, tags[i], v)
      THEN semverLoop(opts, tags, i + 1, latestIdx, latestSemVer)
    ELSE IF Replaces(latestSemVer, v)
      THEN semverLoop(opts, tags, i + 1, i, <<v>>)
    ELSE semverLoop(opts, tags, i + 1, latestIdx, latestSemVer)
    : v \in {NewVersion(tags[i].Tag)} })

latestSemver(opts, tags) == semverLoop(opts, tags, 1, 0, <<>>)

(***************************************************************************)
(* latestSHA: the tag with the latest Timestamp.                           *)
(***************************************************************************)
\* After with "not before" for "after": an equal time counts as later
AfterOrEqual(t, u) == t >= u

\* time.Time.After
After(t, u) == t > u

RECURSIVE shaLoop(_, _, _)
shaLoop(tags, i, latestIdx) ==
  IF i > Len(tags)
    THEN IF latestIdx = 0 THEN Failed(ErrNoSHA) ELSE Found(tags, latestIdx)
  ELSE IF latestIdx = 0 \/ After(tags[i].Timestamp, tags[latestIdx].Timestamp)
    THEN shaLoop(tags, i + 1, i)
  ELSE shaLoop(tags, i + 1, latestIdx)

latestSHA(tags) == shaLoop(tags, 1, 0)

\* LatestTagFromImage, lines 69-74: the selector the options choose
SelectTag(opts, tags) ==
  IF opts.UseSHA THEN latestSHA(tags) ELSE latestSemver(opts, tags)

(***************************************************************************)
(* clientFromImage: m holds what quay.IsClient, gcr.IsClient and           *)
(* docker.IsClient answer for the image URL.                               *)
(***************************************************************************)
\* clientFromImage with the gcr case tried before the quay case
clientFromImageGcrFirst(m) ==
  CASE m.gcr -> "gcr"
    [] m.quay -> "quay"
    [] m.docker -> "docker"
    [] OTHER -> "docker"

clientFromImage(m) ==
  CASE m.quay -> "quay"
    [] m.gcr -> "gcr"
    [] m.docker -> "docker"
    [] OTHER -> "docker"

(***************************************************************************)
(* The tag cache and the resolutions that share it.                        *)
(*                                                                         *)
(* The lookup (tryImageCache) holds cacheMu.RLock and a pass of the        *)
(* collector holds cacheMu.Lock, but the map assignment of line 102 holds  *)
(* no lock.  An assignment that overlaps another access of the map is a    *)
(* data race, and its outcomes are taken at the level of the map           *)
(* operations: the racing operations take effect in some order, or the     *)
(* assignment is lost, or the lookup misses the entry, or the runtime      *)
(* detects the concurrent access and stops the process.                    *)
(***************************************************************************)
\* the clock stops at MaxTime
MaxTime == 2

\* New's cacheTimeout argument, in clock ticks
cacheTimeout == 2

\* the concurrent callers of LatestTagFromImage
Callers == {1, 2}

\* the garbage collector goroutine, as a party to a data race
GC == 0

(***************************************************************************)
(* Image URLs, each with the answers of the three IsClient predicates and  *)
(* the tags its registry holds.                                            *)
(***************************************************************************)
URLs ==
  { [name |-> "quay.io/a", quay |-> TRUE, gcr |-> FALSE, docker |-> FALSE,
     tags |-> <<T123, T200>>],
    [name |-> "b", quay |-> FALSE, gcr |-> FALSE, docker |-> FALSE,
     tags |-> <<T129>>] }

IsClient(u) == [quay |-> u.quay, gcr |-> u.gcr, docker |-> u.docker]

\* what client.Tags may return for u: an error (a failed, cancelled or
\* timed-out request), no tag, or the tags of the registry
ErrTags == "client.Tags failed"

Responses(u) ==
  { [err |-> ErrTags, tags |-> <<>>],
    [err |-> Nil, tags |-> <<>>],
    [err |-> Nil, tags |-> u.tags] }

DefaultOptions ==
  [UseSHA |-> FALSE, UsePreRelease |-> FALSE, PinMajor |-> <<>>,
   PinMinor |-> <<>>, PinPatch |-> <<>>, RegexMatcher |-> <<>>]

\* the options the callers pass
CallOptions ==
  { [DefaultOptions EXCEPT !.PinMajor = <<2>>],
    [DefaultOptions EXCEPT !.UseSHA = TRUE] }

ErrFetch == "failed to get tags from remote registry"

ErrEmpty == "no tags found for given image URL"

VARIABLES
  now,            \* the clock
  tickPending,    \* the ticker of garbageCollect has a tick to deliver
  imageCache,     \* v.imageCache: URL -> imageCacheItem
  pc,             \* each caller's position in LatestTagFromImage
  url,            \* its imageURL argument
  seenTs,         \* the timestamp of the entry the map held for its URL when
                  \* its lookup took RLock (-1: no entry, or no lookup running)
  resp,           \* what client.Tags returned to it
  tags,           \* the tags allTagsFromImage returns to it
  fetched,        \* the client.Tags calls it made in this call
  storeTs,        \* the time.Now() of the imageCacheItem it is storing
  result,         \* what LatestTagFromImage returns to it
  gcPc,           \* the garbage collector: "wait" or "pass" (holding cacheMu)
  gcNow,          \* the time.Now() of the running pass
  toDelete,       \* the stale URLs the running pass has found
  racing,         \* the goroutines whose map access a concurrent one may upset:
                  \* a lookup or a pass that overlaps a store, a store that
                  \* overlaps another write (a store, a pass that deletes)
  crashed,        \* the runtime has stopped the process (fatal error)
  selPc,          \* SpecSelect: "select", "selected", "dispatch", "dispatched"
  selTags,        \* SpecSelect: the tag list
  selOpts,        \* SpecSelect: the options
  selMatch,       \* SpecSelect: the answers of the IsClient predicates
  selOut,         \* SpecSelect: the selector's result
  selClient,      \* SpecSelect: the dispatcher's result
  held,           \* SpecAlias: the *api.ImageTag each caller was returned last,
                  \* as the cache item and the index it points into
  hPc,            \* SpecHash: "hash", "hashed" ("off" elsewhere)
  hURL,           \* SpecHash: the imageURL of the two CalculateHashIndex calls
  hOpts,          \* SpecHash: the *api.Options of the first and the second call
  hOut            \* SpecHash: what the two calls returned

cacheVars ==
  <<now, tickPending, imageCache, pc, url, seenTs, resp, tags, fetched,
    storeTs, result, gcPc, gcNow, toDelete, racing, crashed>>

selVars == <<selPc, selTags, selOpts, selMatch, selOut, selClient>>

hashVars == <<hPc, hURL, hOpts, hOut>>

vars == <<cacheVars, selVars, held, hashVars>>

NoURL == CHOOSE u \in URLs : TRUE

NoEntry == [present |-> FALSE, timestamp |-> 0, tags |-> <<>>]

NoResp == [err |-> Nil, tags |-> <<>>]

NoResult == Failed("none")

\* an item of age cacheTimeout or more is stale
Fresh(item, t) == t - item.timestamp < cacheTimeout

\* tryImageCache: the lookup, made holding cacheMu.RLock
tryImageCache(cache, u, t) ==
  IF cache[u].present /\ Fresh(cache[u], t)
    THEN [tags |-> cache[u].tags, ok |-> TRUE]
    ELSE [tags |-> <<>>, ok |-> FALSE]

\* CacheHit that takes every lookup for a hit
CacheHitAlways(r) == TRUE

\* line 82: the lookup's result is returned as a hit
CacheHit(r) == r.ok

\* FetchVerdict without the error test of line 90
FetchVerdictNoErrTest(r) ==
  IF Len(r.tags) = 0 THEN ErrEmpty ELSE Nil

\* FetchVerdict without the length test of line 95
FetchVerdictNoLenTest(r) ==
  IF r.err # Nil THEN ErrFetch ELSE Nil

\* lines 90-97: the response of client.Tags is an error, empty, or cached
FetchVerdict(r) ==
  IF r.err # Nil THEN ErrFetch
  ELSE IF Len(r.tags) = 0 THEN ErrEmpty
  ELSE Nil

\* lines 102-105: the item stored for tags fetched at time t
imageCacheItem(t, tgs) == [present |-> TRUE, timestamp |-> t, tags |-> tgs]

\* MapAssign that makes a new map holding the item alone
MapAssignFresh(cache, u, item) ==
  [w \in DOMAIN cache |-> IF w = u THEN item ELSE NoEntry]

\* v.imageCache[imageURL] = item
MapAssign(cache, u, item) == [cache EXCEPT ![u] = item]

\* the callers in the middle of the unguarded map assignment of line 102
Storing == {c \in Callers : pc[c] = "storing"}

\* the callers holding cacheMu.RLock
RLocked == {c \in Callers : pc[c] = "read"}

\* no *api.ImageTag returned yet
NoRef == [set |-> FALSE, url |-> NoURL, timestamp |-> 0, idx |-> 0]

\* no CalculateHashIndex call
HashOff ==
  /\ hPc = "off"
  /\ hURL = <<>>
  /\ hOpts = <<>>
  /\ hOut = <<>>

CacheInit ==
  /\ held = [c \in Callers |-> NoRef]
  /\ now = 0
  /\ tickPending = FALSE
  /\ imageCache = [u \in URLs |-> NoEntry]
  /\ pc = [c \in Callers |-> "idle"]
  /\ url = [c \in Callers |-> NoURL]
  /\ seenTs = [c \in Callers |-> -1]
  /\ resp = [c \in Callers |-> NoResp]
  /\ tags = [c \in Callers |-> <<>>]
  /\ fetched = [c \in Callers |-> 0]
  /\ storeTs = [c \in Callers |-> -1]
  /\ result = [c \in Callers |-> NoResult]
  /\ gcPc = "wait"
  /\ gcNow = 0
  /\ toDelete = {}
  /\ racing = {}
  /\ crashed = FALSE

\* LatestTagFromImage(ctx, opts, u) is called and tryImageCache takes
\* cacheMu.RLock: no pass of the collector holds Lock
Call(c) ==
  /\ ~crashed
  /\ pc[c] = "idle"
  /\ gcPc # "pass"
  /\ \E u \in URLs :
       /\ url' = [url EXCEPT ![c] = u]
       /\ seenTs' = [seenTs EXCEPT ![c] = IF imageCache[u].present
                                            THEN imageCache[u].timestamp
                                            ELSE -1]
  /\ pc' = [pc EXCEPT ![c] = "read"]
  /\ racing' = IF Storing # {} THEN racing \cup {c} ELSE racing
  /\ UNCHANGED <<now, tickPending, imageCache, resp, tags, fetched, storeTs,
                 result, gcPc, gcNow, toDelete, crashed, selVars, held, hashVars>>

\* lines 82-84: the lookup returns and RUnlocks; a hit ends allTagsFromImage.
\* A lookup that overlapped an unguarded store is a data race: it may also
\* miss the entry.
TryImageCache(c) ==
  /\ ~crashed
  /\ pc[c] = "read"
  /\ \E r \in {tryImageCache(imageCache, url[c], now)}
            \cup (IF c \in racing THEN {[tags |-> <<>>, ok |-> FALSE]} ELSE {}) :
       IF CacheHit(r)
         THEN /\ pc' = [pc EXCEPT ![c] = "select"]
              /\ tags' = [tags EXCEPT ![c] = r.tags]
         ELSE /\ pc' = [pc EXCEPT ![c] = "fetch"]
              /\ UNCHANGED tags
  /\ racing' = racing \ {c}
  /\ seenTs' = [seenTs EXCEPT ![c] = -1]
  /\ UNCHANGED <<now, tickPending, imageCache, url, resp, fetched, storeTs,
                 result, gcPc, gcNow, toDelete, crashed, selVars, held, hashVars>>

\* lines 87-89: the client is chosen and client.Tags returns
Fetch(c) ==
  /\ ~crashed
  /\ pc[c] = "fetch"
  /\ clientFromImage(IsClient(url[c])) \in {"quay", "gcr", "docker"}
  /\ \E r \in Responses(url[c]) : resp' = [resp EXCEPT ![c] = r]
  /\ fetched' = [fetched EXCEPT ![c] = @ + 1]
  /\ pc' = [pc EXCEPT ![c] = "fetched"]
  /\ UNCHANGED <<now, tickPending, imageCache, url, tags, storeTs, result,
                 gcPc, gcNow, toDelete, racing, crashed, seenTs,
                 selVars, held, hashVars>>

\* lines 90-102: an error or an empty list ends the call; otherwise the map
\* assignment of line 102 begins, holding no lock
\* a call that fetches a second time when client.Tags fails
HandleFetchRetry(c) ==
  /\ ~crashed
  /\ pc[c] = "fetched"
  /\ IF FetchVerdict(resp[c]) # Nil
       THEN /\ IF resp[c].err # Nil /\ fetched[c] < 2
                 THEN pc' = [pc EXCEPT ![c] = "fetch"] /\ UNCHANGED result
                 ELSE /\ pc' = [pc EXCEPT ![c] = "done"]
                      /\ result' =
                           [result EXCEPT ![c] = Failed(FetchVerdict(resp[c]))]
            /\ resp' = [resp EXCEPT ![c] = NoResp]
            /\ UNCHANGED <<storeTs, racing>>
       ELSE /\ pc' = [pc EXCEPT ![c] = "storing"]
            /\ storeTs' = [storeTs EXCEPT ![c] = now]
            /\ racing' =
                 racing \cup RLocked
                   \cup (IF gcPc = "pass" THEN {GC} ELSE {})
                   \cup (IF Storing # {} \/ (gcPc = "pass" /\ toDelete # {})
                          THEN {c} \cup Storing ELSE {})
            /\ UNCHANGED <<result, resp>>
  /\ UNCHANGED <<now, tickPending, imageCache, url, tags, fetched, gcPc, gcNow,
                 toDelete, crashed, seenTs,
                 selVars, held, hashVars>>

\* lines 102-107: the map assignment ends and allTagsFromImage returns the
\* fetched tags.  An assignment that overlapped another write of the map is a
\* data race: it may also be lost.
HandleFetch(c) ==
  /\ ~crashed
  /\ pc[c] = "fetched"
  /\ IF FetchVerdict(resp[c]) # Nil
       THEN /\ pc' = [pc EXCEPT ![c] = "done"]
            /\ result' = [result EXCEPT ![c] = Failed(FetchVerdict(resp[c]))]
            /\ resp' = [resp EXCEPT ![c] = NoResp]
            /\ UNCHANGED <<storeTs, racing>>
       ELSE /\ pc' = [pc EXCEPT ![c] = "storing"]
            /\ storeTs' = [storeTs EXCEPT ![c] = now]
            /\ racing' =
                 racing \cup RLocked
                   \cup (IF gcPc = "pass" THEN {GC} ELSE {})
                   \cup (IF Storing # {} \/ (gcPc = "pass" /\ toDelete # {})
                          THEN {c} \cup Storing ELSE {})
            /\ UNCHANGED <<result, resp>>
  /\ UNCHANGED <<now, tickPending, imageCache, url, tags, fetched, gcPc, gcNow,
                 toDelete, crashed, seenTs,
                 selVars, held, hashVars>>

\* lines 102-107: the map assignment ends and allTagsFromImage returns the
\* fetched tags.  An assignment that overlapped another write of the map is a
\* data race: it may also be lost.
StoreEnd(c) ==
  /\ ~crashed
  /\ pc[c] = "storing"
  /\ \/ imageCache' =
          MapAssign(imageCache, url[c], imageCacheItem(storeTs[c], resp[c].tags))
     \/ c \in racing /\ UNCHANGED imageCache
  /\ tags' = [tags EXCEPT ![c] = resp[c].tags]
  /\ resp' = [resp EXCEPT ![c] = NoResp]
  /\ pc' = [pc EXCEPT ![c] = "select"]
  /\ racing' = racing \ {c}
  /\ storeTs' = [storeTs EXCEPT ![c] = -1]
  /\ UNCHANGED <<now, tickPending, url, fetched, result, gcPc, gcNow, toDelete,
                 crashed, seenTs,
                 selVars, held, hashVars>>

\* lines 69-74: the selector runs on the tags, under the options of the call
\* (opts is read here first)
Select(c) ==
  /\ ~crashed
  /\ pc[c] = "select"
  /\ \E o \in CallOptions :
       result' = [result EXCEPT ![c] = SelectTag(o, tags[c])]
  /\ tags' = [tags EXCEPT ![c] = <<>>]
  /\ pc' = [pc EXCEPT ![c] = "done"]
  /\ UNCHANGED <<now, tickPending, imageCache, url, resp, fetched, storeTs,
                 gcPc, gcNow, toDelete, racing, crashed, seenTs,
                 selVars, held, hashVars>>

\* LatestTagFromImage has returned result[c]; the caller goes on
Return(c) ==
  /\ ~crashed
  /\ pc[c] = "done"
  /\ pc' = [pc EXCEPT ![c] = "idle"]
  /\ url' = [url EXCEPT ![c] = NoURL]
  /\ fetched' = [fetched EXCEPT ![c] = 0]
  /\ result' = [result EXCEPT ![c] = NoResult]
  /\ UNCHANGED <<now, tickPending, imageCache, resp, tags, storeTs, gcPc, gcNow,
                 toDelete, racing, crashed, seenTs,
                 selVars, held, hashVars>>

(***************************************************************************)
(* garbageCollect(cacheTimeout / 2): on every tick of its ticker, a pass   *)
(* over the map holding cacheMu.Lock.                                      *)
(***************************************************************************)
\* the collector's period, were it the whole cacheTimeout
SweepPeriodFull == cacheTimeout

SweepPeriod == cacheTimeout \div 2

Stale(cache, t) == {u \in URLs : cache[u].present /\ ~Fresh(cache[u], t)}

\* the pass takes cacheMu.Lock and reads the items
SweepBegin ==
  /\ ~crashed
  /\ gcPc = "wait"
  /\ tickPending
  /\ RLocked = {}
  /\ gcPc' = "pass"
  /\ tickPending' = FALSE
  /\ gcNow' = now
  /\ toDelete' = Stale(imageCache, now)
  /\ racing' =
       IF Storing = {} THEN racing
       ELSE racing \cup {GC}
              \cup (IF Stale(imageCache, now) # {} THEN Storing ELSE {})
  /\ UNCHANGED <<now, imageCache, pc, url, resp, tags, fetched, storeTs,
                 result, crashed, seenTs,
                 selVars, held, hashVars>>

\* the pass deletes the items it found stale and Unlocks
SweepEnd ==
  /\ ~crashed
  /\ gcPc = "pass"
  /\ imageCache' = [u \in URLs |-> IF u \in toDelete THEN NoEntry ELSE imageCache[u]]
  /\ gcPc' = "wait"
  /\ gcNow' = 0
  /\ toDelete' = {}
  /\ racing' = racing \ {GC}
  /\ UNCHANGED <<now, tickPending, pc, url, resp, tags, fetched, storeTs,
                 result, crashed, seenTs,
                 selVars, held, hashVars>>

\* the runtime detects a concurrent map access and stops the process
FatalError ==
  /\ ~crashed
  /\ racing # {}
  /\ crashed' = TRUE
  /\ UNCHANGED <<now, tickPending, imageCache, pc, url, resp, tags, fetched,
                 storeTs, result, gcPc, gcNow, toDelete, racing, seenTs,
                 selVars, held, hashVars>>

\* time passes; the ticker ticks every SweepPeriod and holds one tick.  A map
\* assignment under way ends before the item it stores is cacheTimeout old.
\* a unit of time passes, the clock below limit
Elapse(limit) ==
  /\ ~crashed
  /\ now < limit
  /\ \A c \in Storing : now + 1 - storeTs[c] < cacheTimeout
  /\ now' = now + 1
  /\ tickPending' = IF (now + 1) % SweepPeriod = 0 THEN TRUE ELSE tickPending
  /\ UNCHANGED <<imageCache, pc, url, resp, tags, fetched, storeTs, result,
                 gcPc, gcNow, toDelete, racing, crashed, seenTs,
                 selVars, held, hashVars>>

Tick == Elapse(MaxTime)

SelOff ==
  /\ selPc = "off"
  /\ selTags = <<>>
  /\ selOpts = DefaultOptions
  /\ selMatch = [quay |-> FALSE, gcr |-> FALSE, docker |-> FALSE]
  /\ selOut = Failed("none")
  /\ selClient = "none"

Init == CacheInit /\ SelOff /\ HashOff

Next ==
  \/ \E c \in Callers : Call(c)
  \/ \E c \in Callers : TryImageCache(c)
  \/ \E c \in Callers : Fetch(c)
  \/ \E c \in Callers : HandleFetch(c)
  \/ \E c \in Callers : StoreEnd(c)
  \/ \E c \in Callers : Select(c)
  \/ \E c \in Callers : Return(c)
  \/ SweepBegin
  \/ SweepEnd
  \/ FatalError
  \/ Tick

Spec == Init /\ [][Next]_vars

(***************************************************************************)
(* SpecSweep: the cache with a collector that keeps its period: a pass     *)
(* that is due begins and ends before the clock moves on.                  *)
(***************************************************************************)
MaxSweepTime == 4

PromptTick ==
  /\ ~tickPending
  /\ gcPc = "wait"
  /\ Elapse(MaxSweepTime)

SweepNext ==
  \/ \E c \in Callers : Call(c)
  \/ \E c \in Callers : TryImageCache(c)
  \/ \E c \in Callers : Fetch(c)
  \/ \E c \in Callers : HandleFetch(c)
  \/ \E c \in Callers : StoreEnd(c)
  \/ \E c \in Callers : Select(c)
  \/ \E c \in Callers : Return(c)
  \/ SweepBegin
  \/ SweepEnd
  \/ FatalError
  \/ PromptTick

SpecSweep == Init /\ [][SweepNext]_vars

(***************************************************************************)
(* SpecSelect: the selectors and the dispatcher as functions of their      *)
(* inputs.  The initial states hold every tag list of at most MaxTags tags *)
(* of TagUniverse with every option set of OptionSets, and every answer of *)
(* the three IsClient predicates.                                          *)
(***************************************************************************)
TagLists == UNION {[1..n -> TagUniverse] : n \in 0..MaxTags}

LeadingV == [anchored |-> TRUE, lit |-> <<"v">>]

OptionSets ==
  [UseSHA : BOOLEAN, UsePreRelease : BOOLEAN, PinMajor : {<<>>, <<1>>, <<3>>},
   PinMinor : {<<>>, <<2>>}, PinPatch : {<<>>, <<9>>},
   RegexMatcher : {<<>>, <<LeadingV>>}]

Matches == [quay : BOOLEAN, gcr : BOOLEAN, docker : BOOLEAN]

NoMatches == [quay |-> FALSE, gcr |-> FALSE, docker |-> FALSE]

SelectInit ==
  /\ CacheInit
  /\ HashOff
  /\ selOut = NoResult
  /\ selClient = "none"
  /\ \/ /\ selPc = "select"
        /\ selTags \in TagLists
        /\ selOpts \in OptionSets
        /\ selMatch = NoMatches
     \/ /\ selPc = "dispatch"
        /\ selTags = <<>>
        /\ selOpts = DefaultOptions
        /\ selMatch \in Matches

\* LatestTagFromImage, lines 69-74, on the tags allTagsFromImage returned
SelLatestTag ==
  /\ selPc = "select"
  /\ selOut' = SelectTag(selOpts, selTags)
  /\ selPc' = "selected"
  /\ UNCHANGED <<cacheVars, held, hashVars, selTags, selOpts, selMatch, selClient>>

\* clientFromImage
SelDispatch ==
  /\ selPc = "dispatch"
  /\ selClient' = clientFromImage(selMatch)
  /\ selPc' = "dispatched"
  /\ UNCHANGED <<cacheVars, held, hashVars, selTags, selOpts, selMatch, selOut>>

SelectNext == SelLatestTag \/ SelDispatch

SpecSelect == SelectInit /\ [][SelectNext]_vars


(***************************************************************************)
(* SpecAlias: what the *api.ImageTag that LatestTagFromImage returns       *)
(* points at.  The calls run one at a time, each to its end (no race), the *)
(* clock and the collector as in Spec.  On a miss the slice client.Tags    *)
(* returned is stored in the item (line 104) and the same slice goes to    *)
(* the selector (line 107), which returns &tags[i] (lines 181, 198): a     *)
(* pointer into the array the cache item holds.  On a hit tryImageCache    *)
(* hands out a copy of the item's tags.  Between its calls a caller may    *)
(* write through the pointer it holds.                                     *)
(***************************************************************************)
\* &tags[i] of the item stored for u at time t
Ref(u, t, i) == [set |-> TRUE, url |-> u, timestamp |-> t, idx |-> i]

\* the array held[c] points into is still the one the map's item holds (run
\* one at a time, two stores for a URL never have the same timestamp)
Live(c) ==
  /\ held[c].set
  /\ imageCache[held[c].url].present
  /\ imageCache[held[c].url].timestamp = held[c].timestamp

\* the tags a caller writes over the one it was returned
Scribbles == {T200, Tlatest}

\* LatestTagFromImage(ctx, o, u), run to its end
Resolve(c, u, o) ==
  /\ ~crashed
  /\ pc[c] = "idle"
  /\ gcPc # "pass"
  /\ url' = [url EXCEPT ![c] = u]
  /\ pc' = [pc EXCEPT ![c] = "done"]
  /\ IF CacheHit(tryImageCache(imageCache, u, now))
       THEN /\ result' = [result EXCEPT ![c] =
                 SelectTag(o, tryImageCache(imageCache, u, now).tags)]
            /\ held' = [held EXCEPT ![c] = NoRef]
            /\ UNCHANGED <<imageCache, fetched>>
       ELSE \E r \in Responses(u) :
              /\ fetched' = [fetched EXCEPT ![c] = @ + 1]
              /\ IF FetchVerdict(r) # Nil
                   THEN /\ result' = [result EXCEPT ![c] =
                                        Failed(FetchVerdict(r))]
                        /\ held' = [held EXCEPT ![c] = NoRef]
                        /\ UNCHANGED imageCache
                   ELSE /\ imageCache' =
                             MapAssign(imageCache, u, imageCacheItem(now, r.tags))
                        /\ result' = [result EXCEPT ![c] = SelectTag(o, r.tags)]
                        /\ held' = [held EXCEPT ![c] =
                             IF SelectTag(o, r.tags).err = Nil
                               THEN Ref(u, now, SelectTag(o, r.tags).idx)
                               ELSE NoRef]
  /\ UNCHANGED <<now, tickPending, seenTs, resp, tags, storeTs, gcPc, gcNow,
                 toDelete, racing, crashed, selVars, hashVars>>

\* the caller assigns to *p, p the pointer it was returned
WriteThrough(c) ==
  /\ ~crashed
  /\ Live(c)
  /\ \E t \in Scribbles :
       /\ imageCache[held[c].url].tags[held[c].idx] # t
       /\ imageCache' =
            [imageCache EXCEPT ![held[c].url].tags[held[c].idx] = t]
  /\ UNCHANGED <<now, tickPending, pc, url, seenTs, resp, tags, fetched,
                 storeTs, result, gcPc, gcNow, toDelete, racing, crashed,
                 selVars, held, hashVars>>

AliasNext ==
  \/ \E c \in Callers, u \in URLs, o \in CallOptions : Resolve(c, u, o)
  \/ \E c \in Callers : Return(c)
  \/ \E c \in Callers : WriteThrough(c)
  \/ SweepBegin
  \/ SweepEnd
  \/ Tick

SpecAlias == Init /\ [][AliasNext]_vars

\* C12: a write a caller makes through a value LatestTagFromImage returned
\* never changes the cache: the entry of a URL changes only when a
\* resolution for the URL stores a new item or the collector removes it.
C12_CacheChangesOnlyWholesale ==
  [][\A u \in URLs :
       imageCache'[u] # imageCache[u] =>
         \/ ~imageCache'[u].present
         \/ \E c \in Callers :
              pc[c] # "done" /\ pc'[c] \in {"done", "select"} /\ url'[c] = u]_vars

(***************************************************************************)
(* CalculateHashIndex: the FNV-1 hash (32 bits) of the JSON text of the    *)
(* options followed by the image URL, printed in decimal.                  *)
(*                                                                         *)
(* A pointer is the address it holds and the value at that address, so     *)
(* that two option sets can be equal in value and differ in every address. *)
(* api.Options is declared outside this file: its JSON text is taken to be *)
(* what encoding/json makes of the six fields named in the specification,  *)
(* under their Go names and in that order.  A 32-bit word is kept as its   *)
(* two 16-bit halves <<hi, lo>>.                                           *)
(***************************************************************************)
\* the ASCII characters from the space (32) to the underscore (95)
PrintableLow ==
  <<
    " ", "!", "\"", "#", "$", "%", "&", "'", "(", ")", "*", "+",
    ",", "-", ".", "/", "0", "1", "2", "3", "4", "5", "6", "7",
    "8", "9", ":", ";", "<", "=", ">", "?", "@", "A", "B", "C",
    "D", "E", "F", "G", "H", "I", "J", "K", "L", "M", "N", "O",
    "P", "Q", "R", "S", "T", "U", "V", "W", "X", "Y", "Z", "[",
    "\\", "]", "^", "_"
  >>

\* the ASCII characters from a (97) to the tilde (126)
PrintableHigh ==
  <<
    "a", "b", "c", "d", "e", "f", "g", "h", "i", "j", "k", "l",
    "m", "n", "o", "p", "q", "r", "s", "t", "u", "v", "w", "x",
    "y", "z", "{", "|", "}", "~"
  >>

Byte(c) ==
  IF \E i \in 1..Len(PrintableLow) : PrintableLow[i] = c
  THEN 31 + CHOOSE i \in 1..Len(PrintableLow) : PrintableLow[i] = c
  ELSE 96 + CHOOSE i \in 1..Len(PrintableHigh) : PrintableHigh[i] = c

Bytes(text) == [i \in 1..Len(text) |-> Byte(text[i])]

RECURSIVE Decimal(_)
\* strconv of a natural number
Decimal(n) ==
  IF n < 10 THEN <<PrintableLow[17 + n]>>
  ELSE Decimal(n \div 10) \o <<PrintableLow[17 + (n % 10)]>>

Ptr(a, x) == [addr |-> a, val |-> x]

jsonNull == <<"n", "u", "l", "l">>

jsonBool(b) == IF b THEN <<"t", "r", "u", "e">> ELSE <<"f", "a", "l", "s", "e">>

\* a *int64 field printed as the address it holds
jsonIntPtrAddress(p) == IF p = <<>> THEN jsonNull ELSE Decimal(p[1].addr)

\* a *int64 field: null, or the integer it points at
jsonIntPtr(p) == IF p = <<>> THEN jsonNull ELSE Decimal(p[1].val)

\* a *regexp.Regexp field: null, or an object without exported fields
jsonRegexpPtr(p) == IF p = <<>> THEN jsonNull ELSE <<"{", "}">>

jsonMember(key, val) == <<"\"">> \o key \o <<"\"", ":">> \o val

\* the members of an api.Options
OptionsJSON(o) ==
  jsonMember(<<"U", "s", "e", "S", "H", "A">>, jsonBool(o.UseSHA)) \o <<",">> \o
  jsonMember(<<"U", "s", "e", "P", "r", "e", "R", "e", "l", "e", "a", "s", "e">>,
             jsonBool(o.UsePreRelease)) \o <<",">> \o
  jsonMember(<<"P", "i", "n", "M", "a", "j", "o", "r">>, jsonIntPtr(o.PinMajor)) \o <<",">> \o
  jsonMember(<<"P", "i", "n", "M", "i", "n", "o", "r">>, jsonIntPtr(o.PinMinor)) \o <<",">> \o
  jsonMember(<<"P", "i", "n", "P", "a", "t", "c", "h">>, jsonIntPtr(o.PinPatch)) \o <<",">> \o
  jsonMember(<<"R", "e", "g", "e", "x", "M", "a", "t", "c", "h", "e", "r">>,
             jsonRegexpPtr(o.RegexMatcher))

\* json.Marshal(opts), opts a *api.Options
Marshal(opts) ==
  [err |-> Nil,
   json |-> IF opts = <<>> THEN jsonNull
            ELSE <<"{">> \o OptionsJSON(opts[1].val) \o <<"}">>]

RECURSIVE XorBits(_, _, _)
\* the exclusive or of the n low bits of a and b
XorBits(a, b, n) ==
  IF n = 0 THEN 0
  ELSE ((a + b) % 2) + 2 * XorBits(a \div 2, b \div 2, n - 1)

\* fnv.New32: the offset basis 2166136261 = 0x811C9DC5
fnvNew32 == <<33052, 40389>>

\* one byte of sum32.Write: hash *= 16777619 (2^24 + 403), then hash ^= b
fnvByte(h, b) ==
  LET lo == (h[2] * 403) % 65536
      hi == (h[1] * 403 + ((h[2] * 403) \div 65536) + (h[2] % 256) * 256) % 65536
  IN  <<hi, (lo \div 256) * 256 + XorBits(lo % 256, b, 8)>>

RECURSIVE fnvBytes(_, _, _, _)
\* the loop of sum32.Write over the bytes bs[i..n]
fnvBytes(h, bs, i, n) ==
  IF i > n THEN h
  ELSE The({ fnvBytes(x, bs, i + 1, n) : x \in {fnvByte(h, bs[i])} })

RECURSIVE fnvWrite(_, _, _)
\* sum32.Write of the bytes bs[i..], taken sixteen bytes at a time to keep
\* the evaluation shallow; it returns no error
fnvWrite(h, bs, i) ==
  IF i > Len(bs) THEN h
  ELSE LET n == IF i + 15 < Len(bs) THEN i + 15 ELSE Len(bs)
       IN  The({ fnvWrite(x, bs, n + 1) : x \in {fnvBytes(h, bs, i, n)} })

RECURSIVE Sprintf(_)
\* fmt.Sprintf("%d", hash.Sum32())
Sprintf(h) ==
  LET rest == (h[1] % 10) * 65536 + h[2]
      q    == <<h[1] \div 10, rest \div 10>>
  IN  IF q = <<0, 0>> THEN Decimal(rest % 10)
      ELSE The({ Sprintf(x) : x \in {q} }) \o Decimal(rest % 10)

ErrMarshal == "failed to marshal options"

HashFailed(e) == [err |-> e, index |-> <<>>]

CalculateHashIndex(imageURL, opts) ==
  LET opsJson == The({ m : m \in {Marshal(opts)} })
  IN  IF opsJson.err # Nil THEN HashFailed(ErrMarshal)
      ELSE [err |-> Nil,
            index |-> The({ Sprintf(fnvWrite(fnvNew32, bs, 1)) :
                            bs \in {Bytes(opsJson.json \o imageURL)} })]

(***************************************************************************)
(* SpecHash: CalculateHashIndex is called twice with the same image URL,   *)
(* the options of the second call held at other addresses than those of    *)
(* the first.                                                              *)
(***************************************************************************)
\* the image URLs hashed
ImageURLTexts == {<<"q", "u", "a", "y", ".", "i", "o", "/", "a">>, <<"b">>}

\* the optional field f the way Go holds it: nil, or a pointer
PtrField(f, a) == IF f = <<>> THEN <<>> ELSE <<Ptr(a, f[1])>>

\* a *api.Options to the option set o, allocated from address a on
OptionsAt(o, a) ==
  <<Ptr(a, [UseSHA |-> o.UseSHA, UsePreRelease |-> o.UsePreRelease,
            PinMajor |-> PtrField(o.PinMajor, a + 1),
            PinMinor |-> PtrField(o.PinMinor, a + 2),
            PinPatch |-> PtrField(o.PinPatch, a + 3),
            RegexMatcher |-> PtrField(o.RegexMatcher, a + 4)])>>

\* the option sets the second call is made with, the first made with o
Variants(o) ==
  {o, [o EXCEPT !.UseSHA = ~@], [o EXCEPT !.PinMajor = <<>>]}

\* the options of the two calls: nil, or two option sets
OptionPairs ==
  {<<<<>>, <<>>>>} \cup
  UNION { { <<OptionsAt(o, 10), OptionsAt(p, a)>> :
              p \in Variants(o), a \in {20, 30} } : o \in OptionSets }

HashInit ==
  /\ CacheInit
  /\ SelOff
  /\ hPc = "hash"
  /\ hURL \in ImageURLTexts
  /\ hOpts \in OptionPairs
  /\ hOut = <<>>

\* the next call of CalculateHashIndex
HashCall ==
  /\ hPc = "hash"
  /\ hOut' = Append(hOut, CalculateHashIndex(hURL, hOpts[Len(hOut) + 1]))
  /\ hPc' = IF Len(hOut) = 1 THEN "hashed" ELSE "hash"
  /\ UNCHANGED <<cacheVars, selVars, held, hURL, hOpts>>

HashNext == HashCall

SpecHash == HashInit /\ [][HashNext]_vars

\* the option set a *api.Options points at, every pointer followed
Pointee(opts) ==
  IF opts = <<>> THEN <<>>
  ELSE LET o == opts[1].val
           Val(f) == IF f = <<>> THEN <<>> ELSE <<f[1].val>>
       IN  <<[UseSHA |-> o.UseSHA, UsePreRelease |-> o.UsePreRelease,
              PinMajor |-> Val(o.PinMajor), PinMinor |-> Val(o.PinMinor),
              PinPatch |-> Val(o.PinPatch),
              RegexMatcher |-> Val(o.RegexMatcher)]>>

\* C13: two calls of CalculateHashIndex with the same image URL and with
\* options that are equal in value, whatever the addresses they are held
\* at, return the same decimal string, and neither returns an error.
C13_HashIgnoresPointerIdentity ==
  /\ \A i \in 1..Len(hOut) : hOut[i].err = Nil /\ hOut[i].index # <<>>
  /\ hPc = "hashed" /\ Pointee(hOpts[1]) = Pointee(hOpts[2])
       => hOut[1].index = hOut[2].index

C13_Witness ==
  /\ hPc = "hashed"
  /\ hOpts[1] # <<>>
  /\ hOpts[1] # hOpts[2]
  /\ Pointee(hOpts[1]) = Pointee(hOpts[2])
  /\ hOpts[1][1].val.PinMajor # <<>>
  /\ hOut[1].err = Nil
  /\ hOut[1] = hOut[2]

(***************************************************************************)
(* Properties of the selectors and of the dispatcher (SpecSelect).         *)
(***************************************************************************)
\* the versions semver.NewVersion makes of the tags of a list
Versions(tgs) == [i \in 1..Len(tgs) |-> NewVersion(tgs[i].Tag)]

\* tag i of the list survives the filters the options set: it parses, matches
\* the regex if one is set, has no pre-release unless they are wanted, and
\* equals every pin that is set
Eligible(opts, tgs, vs, i) ==
  /\ vs[i].err = Nil
  /\ opts.RegexMatcher = <<>> \/ MatchString(opts.RegexMatcher[1], tgs[i].Tag)
  /\ vs[i].pre = <<>> \/ opts.UsePreRelease
  /\ opts.PinMajor = <<>> \/ vs[i].major = opts.PinMajor[1]
  /\ opts.PinMinor = <<>> \/ vs[i].minor = opts.PinMinor[1]
  /\ opts.PinPatch = <<>> \/ vs[i].patch = opts.PinPatch[1]

Survivors(opts, tgs, vs) == {i \in 1..Len(tgs) : Eligible(opts, tgs, vs, i)}

\* the survivors no survivor is strictly greater than
Maximal(opts, tgs, vs) ==
  {i \in Survivors(opts, tgs, vs) :
     \A j \in Survivors(opts, tgs, vs) : Compare(vs[i], vs[j]) >= 0}

Min(S) == CHOOSE i \in S : \A j \in S : i <= j

\* a tag of the list has a numeric segment semver.NewVersion cannot hold: its
\* error is not ErrInvalidSemVer
ParseFails(vs) ==
  \E i \in DOMAIN vs : vs[i].err \notin {Nil, ErrInvalidSemVer}

\* latestSemver has returned for the list and the options of the state
SemverDone == selPc = "selected" /\ ~selOpts.UseSHA

\* the result is the first of the maximal survivors
IsBestSurvivor(opts, tgs, vs, out) ==
  /\ out.err = Nil
  /\ out.idx \in Survivors(opts, tgs, vs)
  /\ out.tag = tgs[out.idx]
  /\ \A j \in Survivors(opts, tgs, vs) : ~LessThan(vs[out.idx], vs[j])
  /\ out.idx = Min(Maximal(opts, tgs, vs))

\* C6 as stated: whenever a tag survives the filters, latestSemver returns a
\* survivor (parsed, regex-matching, pre-release only if wanted, pins equal)
\* that no survivor is strictly greater than, the first of the equal maximal
\* ones in list order.
C6_SemverBestOfSurvivors ==
  SemverDone =>
    The({ Survivors(selOpts, selTags, vs) # {}
            => IsBestSurvivor(selOpts, selTags, vs, selOut)
          : vs \in {Versions(selTags)} })

\* C6, amended: the same, for the lists in which no tag's parse fails with an
\* error other than ErrInvalidSemVer.
C6_SemverBestUnlessParseError ==
  SemverDone =>
    The({ Survivors(selOpts, selTags, vs) # {} /\ ~ParseFails(vs)
            => IsBestSurvivor(selOpts, selTags, vs, selOut)
          : vs \in {Versions(selTags)} })

\* C6 witness: 1.2.9 and v1.2.9 are equal maximal survivors and the first of
\* them, 1.2.9, is returned
C6_Witness ==
  /\ SemverDone
  /\ selTags = <<T123, T129, Tv129>>
  /\ selOpts = [DefaultOptions EXCEPT !.PinMajor = <<1>>]
  /\ selOut = Found(selTags, 2)

PinnedMajor(n) == [DefaultOptions EXCEPT !.PinMajor = <<n>>]

\* C7 as stated: latestSemver fails with the no-match error exactly when no
\* tag survives the filters and returns a tag without error whenever one
\* does; 1.2.3, 1.2.9, 2.0.0 give 1.2.9 under PinMajor=1 and the no-match
\* error under PinMajor=3.
C7_NoMatchIffNoSurvivor ==
  SemverDone =>
    The({ /\ selOut.err = ErrNoMatch <=> Survivors(selOpts, selTags, vs) = {}
          /\ Survivors(selOpts, selTags, vs) # {} => selOut.err = Nil
          /\ selTags = <<T123, T129, T200>> /\ selOpts = PinnedMajor(1)
               => selOut = Found(selTags, 2)
          /\ selTags = <<T123, T129, T200>> /\ selOpts = PinnedMajor(3)
               => selOut.err = ErrNoMatch
          : vs \in {Versions(selTags)} })

\* C7, amended: when a tag's parse fails with an error other than
\* ErrInvalidSemVer, latestSemver returns that error; otherwise it fails with
\* the no-match error exactly when no tag survives the filters and returns a
\* tag without error whenever one does (same examples).
C7_NoMatchIffNoSurvivorUnlessParseError ==
  SemverDone =>
    The({ /\ ParseFails(vs) => selOut.err = ErrParseSegment
          /\ ~ParseFails(vs) =>
               /\ selOut.err = ErrNoMatch
                    <=> Survivors(selOpts, selTags, vs) = {}
               /\ Survivors(selOpts, selTags, vs) # {} => selOut.err = Nil
          /\ selTags = <<T123, T129, T200>> /\ selOpts = PinnedMajor(1)
               => selOut = Found(selTags, 2)
          /\ selTags = <<T123, T129, T200>> /\ selOpts = PinnedMajor(3)
               => selOut.err = ErrNoMatch
          : vs \in {Versions(selTags)} })

\* C7 witness: 1.2.3, 1.2.9, 2.0.0 under PinMajor=3 has failed with the
\* no-match error
C7_Witness ==
  /\ SemverDone
  /\ selTags = <<T123, T129, T200>>
  /\ selOpts = PinnedMajor(3)
  /\ selOut = Failed(ErrNoMatch)

\* the first index of the list holding its latest Timestamp
FirstLatest(tgs) ==
  Min({i \in 1..Len(tgs) :
         \A j \in 1..Len(tgs) : tgs[j].Timestamp <= tgs[i].Timestamp})

\* C8: with UseSHA, for every non-empty list, LatestTagFromImage returns the
\* first of the tags holding the latest Timestamp, whatever the tag texts and
\* whatever PinMajor, PinMinor, PinPatch, UsePreRelease and RegexMatcher are.
C8_SHALatestTimestampFirst ==
  selPc = "selected" /\ selOpts.UseSHA /\ selTags # <<>> =>
    selOut = Found(selTags, FirstLatest(selTags))

\* C8 witness: two tags share the latest Timestamp, the first is returned,
\* and it is a pre-release the pins and the regex of the options exclude,
\* next to a text that is no version
C8_Witness ==
  /\ selPc = "selected"
  /\ selTags = <<Tlatest, T130b, Tv129>>
  /\ selOpts = [UseSHA |-> TRUE, UsePreRelease |-> FALSE, PinMajor |-> <<3>>,
                PinMinor |-> <<2>>, PinPatch |-> <<9>>,
                RegexMatcher |-> <<LeadingV>>]
  /\ selOut = Found(selTags, 2)

\* C9: the dispatcher always returns one of the three clients: quay iff quay
\* matches, gcr iff quay does not match and gcr does, docker otherwise (also
\* when no predicate matches).
C9_DispatchFirstMatchWins ==
  selPc = "dispatched" =>
    /\ selClient \in {"quay", "gcr", "docker"}
    /\ selClient = "quay" <=> selMatch.quay
    /\ selClient = "gcr" <=> ~selMatch.quay /\ selMatch.gcr
    /\ selClient = "docker" <=> ~selMatch.quay /\ ~selMatch.gcr

\* C9 witness: no predicate matches and the docker client is returned
C9_Witness ==
  /\ selPc = "dispatched"
  /\ selMatch = NoMatches
  /\ selClient = "docker"

\* the tags semver.NewVersion rejects as not being a semantic version
NotSemver(t) == NewVersion(t.Tag).err = ErrInvalidSemVer

IsSemver(t) == ~NotSemver(t)

\* the tags semver.NewVersion makes a version of
Parses(t) == NewVersion(t.Tag).err = Nil

\* latestSemver answers r for the list it was given
SameAnswer(r) == selOut.err = r.err /\ selOut.tag = r.tag

\* C14 as stated: the tags that do not parse change nothing: latestSemver
\* answers for a list what it answers for the list without them, the same
\* tag or the same error.
C14_UnparsedTagsChangeNothing ==
  SemverDone =>
    SameAnswer(latestSemver(selOpts, SelectSeq(selTags, Parses)))

\* C14: the tags semver.NewVersion rejects with ErrInvalidSemVer change
\* nothing: latestSemver answers for a list what it answers for the list
\* without them, the same tag or the same error.  (A tag with a numeric
\* segment beyond an int64 is not among them: it ends the selection with
\* the parse error.)
C14_InvalidTagsChangeNothing ==
  SemverDone =>
    SameAnswer(latestSemver(selOpts, SelectSeq(selTags, IsSemver)))

C14_Witness ==
  /\ SemverDone
  /\ selTags = <<Tlatest, T123, Tlatest>>
  /\ selOpts = DefaultOptions
  /\ selOut = Found(selTags, 2)

(***************************************************************************)
(* Properties of the cache (Spec).                                         *)
(***************************************************************************)
\* caller c takes the step that leaves position p
Leaves(c, p) == pc[c] = p /\ pc'[c] # p

\* the entry of caller c's URL is in the map and younger than cacheTimeout
EntryFresh(c) ==
  /\ imageCache[url[c]].present
  /\ now - imageCache[url[c]].timestamp < cacheTimeout

\* the entry of caller c's URL has been in the map since c's lookup began
EntryKept(c) ==
  /\ imageCache[url[c]].present
  /\ imageCache[url[c]].timestamp = seenTs[c]

\* C1: a call that fetched and returns its tags leaves an entry for its URL,
\* and a later call for the URL, whose lookup finds that entry in the map
\* from its beginning to its end, younger than the TTL, returns the cached
\* tags without a client.Tags fetch.
C1_HitSuppressesFetch ==
  [][\A c \in Callers :
       /\ Leaves(c, "storing") =>
            imageCache'[url[c]] = imageCacheItem(storeTs[c], tags'[c])
       /\ Leaves(c, "read") /\ EntryKept(c) /\ EntryFresh(c) =>
            pc'[c] = "select" /\ fetched'[c] = 0]_vars

\* C2: the store of a fetched entry never runs at the same time as a lookup,
\* another store or a pass of the collector.
C2_StoreIsExclusive ==
  \A c \in Storing : RLocked = {} /\ gcPc # "pass" /\ Storing = {c}

\* C3: a lookup reports found only when the map has an entry for the URL and
\* now - timestamp < cacheTimeout, and then returns that entry's tags; a
\* lookup of an entry of age cacheTimeout or more (or of no entry) is a miss
\* and the call fetches with client.Tags.
C3_StaleEntryNotServed ==
  [][\A c \in Callers :
       /\ pc[c] = "read" /\ pc'[c] = "select" =>
            EntryFresh(c) /\ tags'[c] = imageCache[url[c]].tags
       /\ Leaves(c, "read") /\ ~EntryFresh(c) => pc'[c] = "fetch"
       /\ Leaves(c, "fetch") =>
            pc'[c] = "fetched" /\ fetched'[c] = fetched[c] + 1]_vars

\* C3 witness: a call has fetched although the map holds an entry for its
\* URL, of age cacheTimeout or more
C3_Witness ==
  \E c \in Callers :
    /\ pc[c] = "fetched"
    /\ fetched[c] = 1
    /\ imageCache[url[c]].present
    /\ now - imageCache[url[c]].timestamp >= cacheTimeout

\* no step of a call but the end of its store changes the map
OnlyStoreWrites(c) ==
  pc'[c] # pc[c] /\ pc[c] # "storing" => imageCache' = imageCache

\* C4: when client.Tags fails, the call returns the fetch error without
\* reaching the store, and no step of it has changed the cache.
C4_FetchErrorNotCached ==
  [][\A c \in Callers :
       /\ OnlyStoreWrites(c)
       /\ Leaves(c, "fetched") /\ resp[c].err # Nil =>
            /\ pc'[c] = "done"
            /\ result'[c] = Failed(ErrFetch)]_vars

\* C4 witness: a call has returned the fetch error and the entry its URL had
\* is still in the map
C4_Witness ==
  \E c \in Callers :
    /\ pc[c] = "done"
    /\ result[c] = Failed(ErrFetch)
    /\ fetched[c] = 1
    /\ imageCache[url[c]].present

\* C5: when client.Tags returns no tag and no error, the call returns the
\* empty-result error, which is neither the fetch error nor a selector's
\* error, without reaching the store; the map is unchanged, and a call that
\* finds no entry for its URL fetches.
C5_EmptyResultNotCached ==
  [][\A c \in Callers :
       /\ Leaves(c, "fetched") /\ resp[c].err = Nil /\ resp[c].tags = <<>> =>
            /\ pc'[c] = "done"
            /\ result'[c] = Failed(ErrEmpty)
            /\ ErrEmpty \notin {ErrFetch, ErrNoMatch, ErrNoSHA}
            /\ imageCache' = imageCache
       /\ Leaves(c, "read") /\ ~imageCache[url[c]].present =>
            pc'[c] = "fetch"]_vars

\* C5 witness: a call has returned the empty-result error and the map has no
\* entry for its URL
C5_Witness ==
  \E c \in Callers :
    /\ pc[c] = "done"
    /\ result[c] = Failed(ErrEmpty)
    /\ ~imageCache[url[c]].present

\* C10: a pass of the collector removes every entry of age cacheTimeout or
\* more and leaves every younger entry unchanged.
C10_SweepRemovesExactlyStale ==
  [][gcPc = "pass" /\ gcPc' = "wait" =>
       \A u \in URLs :
         imageCache[u].present =>
           IF gcNow - imageCache[u].timestamp >= cacheTimeout
             THEN ~imageCache'[u].present
             ELSE imageCache'[u] = imageCache[u]]_vars

\* the URL the step of caller c works for
StepURL(c) == IF pc[c] = "idle" THEN url'[c] ELSE url[c]

\* caller c's call has failed: fetch error, empty result or no match
CallFailed(c) ==
  pc[c] = "done" /\ result[c].err \in {ErrFetch, ErrEmpty, ErrNoMatch}

\* C11: no step of a resolution for a URL changes the cache entry of another
\* URL, a resolution that fails at its fetch changes no entry at all, and a
\* lookup no store overlaps hits or misses by the entry of its own URL alone.
C11_OtherURLsUntouched ==
  [][\A c \in Callers :
       /\ pc'[c] # pc[c] =>
            \A u \in URLs \ {StepURL(c)} : imageCache'[u] = imageCache[u]
       /\ Leaves(c, "fetched") /\ pc'[c] = "done" =>
            imageCache' = imageCache
       /\ Leaves(c, "read") /\ c \notin racing =>
            (pc'[c] = "select" <=> EntryFresh(c))]_vars

\* C11 witness: a call has failed for one URL while the map holds the entry
\* of another URL
C11_Witness ==
  \E c \in Callers :
    /\ CallFailed(c)
    /\ \E u \in URLs \ {url[c]} : imageCache[u].present

\* callers c and d are both in the store of line 102, for the same URL
StoreTogether(c, d) ==
  c # d /\ pc[c] = "storing" /\ pc[d] = "storing" /\ url[c] = url[d]

\* C15: when two calls that missed the same URL store at the same time, the
\* process goes on, both stores take effect and each leaves its own entry in
\* the map, so that the entry of the store that ends last is the one kept.
C15_ConcurrentStoresLastWins ==
  [][\A c, d \in Callers :
       StoreTogether(c, d) =>
         /\ ~crashed'
         /\ pc'[c] # "storing" =>
              /\ pc'[c] = "select"
              /\ imageCache'[url[c]].present
              /\ imageCache'[url[c]].tags = resp[c].tags
              /\ imageCache'[url[c]].timestamp = storeTs[c]]_vars

\* the age of the entry of URL u
Age(u) == now - imageCache[u].timestamp

C17_EntriesNonEmpty ==
  /\ \A u \in URLs : imageCache[u].present => Len(imageCache[u].tags) > 0
  /\ \A c \in Callers :
       /\ pc[c] = "select" => Len(tags[c]) > 0
       /\ pc[c] = "done" => result[c].err # ErrNoSHA

\* C17 witness: a call served from the cache has returned the tag latestSHA
\* selects
C17_Witness ==
  \E c \in Callers :
    /\ pc[c] = "done"
    /\ fetched[c] = 0
    /\ imageCache[url[c]].present
    /\ result[c] = Found(<<T129>>, 1)

\* C18: a call fetches at most once: not before its lookup has missed, once
\* after it, and never again after client.Tags has answered, whatever the
\* answer.
C18_AtMostOneFetch ==
  /\ [](\A c \in Callers :
          /\ fetched[c] \in {0, 1}
          /\ pc[c] \in {"idle", "read", "fetch"} => fetched[c] = 0
          /\ pc[c] \in {"fetched", "storing"} => fetched[c] = 1)
  /\ [][\A c \in Callers :
          /\ Leaves(c, "read") =>
               /\ pc'[c] \in {"select", "fetch"}
               /\ fetched'[c] = 0
          /\ Leaves(c, "fetch") => pc'[c] = "fetched" /\ fetched'[c] = 1
          /\ Leaves(c, "fetched") =>
               /\ pc'[c] \in {"done", "storing"}
               /\ fetched'[c] = 1
          /\ Leaves(c, "storing") \/ Leaves(c, "select") =>
               fetched'[c] = fetched[c]]_vars

\* C18 witness: a call has returned the error of its one fetch while
\* another has returned a tag without fetching
C18_Witness ==
  \E c, d \in Callers :
    /\ pc[c] = "done" /\ result[c].err = ErrFetch /\ fetched[c] = 1
    /\ pc[d] = "done" /\ result[d].err = Nil /\ fetched[d] = 0

\* C19: the tag a call returns without error is an element of the list the
\* call obtained for its URL: the tags of the entry its lookup found, or the
\* tags client.Tags answered for that URL.
C19_TagFromObtainedList ==
  [][\A c \in Callers :
       /\ pc[c] = "read" /\ pc'[c] = "select" =>
            tags'[c] = imageCache[url[c]].tags
       /\ Leaves(c, "fetch") => resp'[c] \in Responses(url[c])
       /\ Leaves(c, "storing") => tags'[c] = resp[c].tags
       /\ pc[c] = "select" => tags[c] = url[c].tags
       /\ Leaves(c, "select") /\ result'[c].err = Nil =>
            \E i \in 1..Len(tags[c]) :
              result'[c].idx = i /\ result'[c].tag = tags[c][i]]_vars

\* C19 witness: a call for the URL with two tags has returned the second
C19_Witness ==
  \E c \in Callers :
    /\ pc[c] = "done"
    /\ result[c] = Found(<<T123, T200>>, 2)
    /\ url[c].tags = <<T123, T200>>

====
